---- MODULE Spec2Model ----
(***************************************************************************)
(* Model of the tiling-window simulator of src/src/App.tsx: the panel list *)
(* (windows), the snap preview (snapIndicator), the two drag refs          *)
(* (draggedWindowId, dragStartPos) and the handlers createWindow,          *)
(* closeWindow, handleDragStart, handleDrag and handleDrop.                *)
(*                                                                         *)
(* Geometry is held in fixed point, Px(1) units to the pixel, so that the  *)
(* halvings of handleDrag/handleDrop (w.width / 2) are exact in the        *)
(* integers as they are in the floating-point numbers of the program for   *)
(* every size the bounded runs below can produce (HalvingExact).           *)
(* The color of a panel is never read by a handler and is left out.        *)
(* Every handler runs to completion and the component re-renders between   *)
(* two events, so a handler's closure (windows, snapIndicator) holds the   *)
(* state left by the previous event.                                       *)
(***************************************************************************)
EXTENDS Integers, Sequences, FiniteSets, TLC

VARIABLES
    windows,          \* useState<WindowData[]>: the ordered panel list
    snapIndicator,    \* useState<SnapIndicatorState>: the snap decision / preview
    draggedWindowId,  \* useRef<number | null>
    dragStartPos,     \* useRef<Position | null>: last recorded pointer
    now,              \* last reading of Date.now(), 0 before the first
    hostDrag,         \* host environment: a drag gesture is in progress
    events,           \* number of events handled so far (bounded by MaxEvents)
    lastEvent,        \* history: the event handled last (DragLabel for a drag event)
    beforeDrop,       \* history: the component's state before the drop handled last
    grab              \* history: the dragstart of the gesture, while only drag events followed

vars == <<windows, snapIndicator, draggedWindowId, dragStartPos, now,
          hostDrag, events, lastEvent, beforeDrop, grab>>

-----------------------------------------------------------------------------
(* Bound of the model: the length of the runs explored *)
MaxEvents == 7

(* Program and environment constants *)
SNAP_THRESHOLD == 30
DefaultWidth == 300
DefaultHeight == 200
PlacementMargin == 200
innerWidth == 1200
innerHeight == 800
Null == 0

Px(n) == 4 * n

Sides == {"left", "right", "top", "bottom"}
NoSide == "none"
NullPos == <<>>
Pos(x, y) == <<x, y>>

(* Math.random() * (innerHeight - 200), Math.random() * (innerWidth - 200):  *)
(* any value of [0, extent - 200); the draws taken here are <<top, left>>.   *)
Placements ==
    { p \in { <<Px(0), Px(0)>>, <<Px(550), Px(950)>> } :
        /\ 0 <= p[1] /\ p[1] < Px(innerHeight - PlacementMargin)
        /\ 0 <= p[2] /\ p[2] < Px(innerWidth - PlacementMargin) }

(* Pointer positions <<clientX, clientY>> delivered by the host. *)
StartPointers == { <<Px(100), Px(10)>> }
Pointers ==
    { <<Px(10), Px(10)>>,     \* near left and top
      <<Px(5), Px(400)>>,     \* near the left screen edge only
      <<Px(0), Px(400)>>,     \* clientX = 0
      <<Px(290), Px(100)>>,   \* near the right edge of a panel placed at (0,0)
      <<Px(150), Px(10)>>,    \* near the top
      <<Px(150), Px(190)>>,   \* near the bottom edge of a panel placed at (0,0)
      <<Px(150), Px(100)>>,   \* middle of a panel placed at (0,0)
      <<Px(1180), Px(650)>>,  \* near the right screen edge, inside a panel at (950,550)
      <<Px(600), Px(790)>> }  \* near the bottom screen edge

-----------------------------------------------------------------------------
(* Array helpers *)

\* Array.prototype.find: index of the first element with this id, 0 when none
FindIdx(ws, id) ==
    IF \E i \in 1..Len(ws) : ws[i].id = id
    THEN CHOOSE i \in 1..Len(ws) :
            ws[i].id = id /\ \A j \in 1..(i - 1) : ws[j].id # id
    ELSE 0

HasId(ws, id) == FindIdx(ws, id) # 0

\* n / 2
Half(n) == n \div 2

\* CSS lengths of the preview, resolved against the viewport
Vw(pct) == (pct * Px(innerWidth)) \div 100
Vh(pct) == (pct * Px(innerHeight)) \div 100

EMPTY_INDICATOR ==
    [show |-> FALSE, side |-> NoSide, target |-> Null,
     top |-> 0, left |-> 0, width |-> 0, height |-> 0]

-----------------------------------------------------------------------------
\* mutant of UnsnapWindow: isSnapped is cleared, the parent of the panel is kept
UnsnapWindow_KeepsParent(curr, windowId) ==
    LET wi == FindIdx(curr, windowId) IN
    IF wi = 0 \/ ~curr[wi].isSnapped \/ curr[wi].parent = Null
    THEN curr
    ELSE
      LET win == curr[wi]
          si  == FindIdx(curr, win.parent)
      IN
      IF si = 0
      THEN [i \in 1..Len(curr) |->
              IF curr[i].id = windowId
              THEN [curr[i] EXCEPT !.isSnapped = FALSE]
              ELSE curr[i]]
      ELSE
        LET sibling == curr[si]
            updatedSibling ==
                [sibling EXCEPT !.width = sibling.width + win.width,
                                !.height = sibling.height + win.height,
                                !.isSnapped = FALSE,
                                !.parent = Null]
        IN
        [i \in 1..Len(curr) |->
            IF curr[i].id = sibling.id THEN updatedSibling
            ELSE IF curr[i].id = windowId
                 THEN [curr[i] EXCEPT !.isSnapped = FALSE]
                 ELSE curr[i]]

\* mutant of UnsnapWindow: a panel whose parent is gone is left as it is
UnsnapWindow_KeepsDangling(curr, windowId) ==
    LET wi == FindIdx(curr, windowId) IN
    IF wi = 0 \/ ~curr[wi].isSnapped \/ curr[wi].parent = Null
    THEN curr
    ELSE
      LET win == curr[wi]
          si  == FindIdx(curr, win.parent)
      IN
      IF si = 0
      THEN curr
      ELSE
        LET sibling == curr[si]
            updatedSibling ==
                [sibling EXCEPT !.width = sibling.width + win.width,
                                !.height = sibling.height + win.height,
                                !.isSnapped = FALSE,
                                !.parent = Null]
        IN
        [i \in 1..Len(curr) |->
            IF curr[i].id = sibling.id THEN updatedSibling
            ELSE IF curr[i].id = windowId
                 THEN [curr[i] EXCEPT !.isSnapped = FALSE, !.parent = Null]
                 ELSE curr[i]]

(* unsnapWindow: the setWindows updater, as a function of the list *)
UnsnapWindow(curr, windowId) ==
    LET wi == FindIdx(curr, windowId) IN
    IF wi = 0 \/ ~curr[wi].isSnapped \/ curr[wi].parent = Null
    THEN curr
    ELSE
      LET win == curr[wi]
          si  == FindIdx(curr, win.parent)
      IN
      IF si = 0
      THEN [i \in 1..Len(curr) |->
              IF curr[i].id = windowId
              THEN [curr[i] EXCEPT !.isSnapped = FALSE, !.parent = Null]
              ELSE curr[i]]
      ELSE
        LET sibling == curr[si]
            updatedSibling ==
                [sibling EXCEPT !.width = sibling.width + win.width,
                                !.height = sibling.height + win.height,
                                !.isSnapped = FALSE,
                                !.parent = Null]
        IN
        [i \in 1..Len(curr) |->
            IF curr[i].id = sibling.id THEN updatedSibling
            ELSE IF curr[i].id = windowId
                 THEN [curr[i] EXCEPT !.isSnapped = FALSE, !.parent = Null]
                 ELSE curr[i]]

\* mutant of RemoveId: when no panel has the id, the last panel is removed
RemoveId_OrLast(prev, id) ==
    IF \E i \in 1..Len(prev) : prev[i].id = id
    THEN SelectSeq(prev, LAMBDA w : w.id # id)
    ELSE SubSeq(prev, 1, Len(prev) - 1)

\* prev.filter((w) => w.id !== id)
RemoveId(prev, id) == SelectSeq(prev, LAMBDA w : w.id # id)

-----------------------------------------------------------------------------
(* The snap resolver of handleDrag *)

\* the pointer is strictly inside the rectangle of w
Inside(w, clientX, clientY) ==
    /\ clientX > w.left
    /\ clientX < w.left + w.width
    /\ clientY > w.top
    /\ clientY < w.top + w.height

\* mutant of PanelIndicator: the top and bottom edges are tested before left and right
PanelIndicator_TopFirst(w, clientX, clientY) ==
    IF clientY < w.top + Px(SNAP_THRESHOLD)
    THEN [show |-> TRUE, side |-> "top", target |-> w.id,
          top |-> w.top, left |-> w.left,
          width |-> w.width, height |-> Half(w.height)]
    ELSE IF clientY > w.top + w.height - Px(SNAP_THRESHOLD)
    THEN [show |-> TRUE, side |-> "bottom", target |-> w.id,
          top |-> w.top + Half(w.height), left |-> w.left,
          width |-> w.width, height |-> Half(w.height)]
    ELSE IF clientX < w.left + Px(SNAP_THRESHOLD)
    THEN [show |-> TRUE, side |-> "left", target |-> w.id,
          top |-> w.top, left |-> w.left,
          width |-> Half(w.width), height |-> w.height]
    ELSE IF clientX > w.left + w.width - Px(SNAP_THRESHOLD)
    THEN [show |-> TRUE, side |-> "right", target |-> w.id,
          top |-> w.top, left |-> w.left + Half(w.width),
          width |-> Half(w.width), height |-> w.height]
    ELSE EMPTY_INDICATOR

\* the if / else-if chain over the four edges of the panel under the pointer
PanelIndicator(w, clientX, clientY) ==
    IF clientX < w.left + Px(SNAP_THRESHOLD)
    THEN [show |-> TRUE, side |-> "left", target |-> w.id,
          top |-> w.top, left |-> w.left,
          width |-> Half(w.width), height |-> w.height]
    ELSE IF clientX > w.left + w.width - Px(SNAP_THRESHOLD)
    THEN [show |-> TRUE, side |-> "right", target |-> w.id,
          top |-> w.top, left |-> w.left + Half(w.width),
          width |-> Half(w.width), height |-> w.height]
    ELSE IF clientY < w.top + Px(SNAP_THRESHOLD)
    THEN [show |-> TRUE, side |-> "top", target |-> w.id,
          top |-> w.top, left |-> w.left,
          width |-> w.width, height |-> Half(w.height)]
    ELSE IF clientY > w.top + w.height - Px(SNAP_THRESHOLD)
    THEN [show |-> TRUE, side |-> "bottom", target |-> w.id,
          top |-> w.top + Half(w.height), left |-> w.left,
          width |-> w.width, height |-> Half(w.height)]
    ELSE EMPTY_INDICATOR

\* the if / else-if chain over the four screen edges
ScreenIndicator(clientX, clientY) ==
    IF clientX < Px(SNAP_THRESHOLD)
    THEN [show |-> TRUE, side |-> "left", target |-> Null,
          top |-> 0, left |-> 0, width |-> Vw(50), height |-> Vh(100)]
    ELSE IF clientX > Px(innerWidth) - Px(SNAP_THRESHOLD)
    THEN [show |-> TRUE, side |-> "right", target |-> Null,
          top |-> 0, left |-> Vw(50), width |-> Vw(50), height |-> Vh(100)]
    ELSE IF clientY < Px(SNAP_THRESHOLD)
    THEN [show |-> TRUE, side |-> "top", target |-> Null,
          top |-> 0, left |-> 0, width |-> Vw(100), height |-> Vh(50)]
    ELSE IF clientY > Px(innerHeight) - Px(SNAP_THRESHOLD)
    THEN [show |-> TRUE, side |-> "bottom", target |-> Null,
          top |-> Vh(50), left |-> 0, width |-> Vw(100), height |-> Vh(50)]
    ELSE EMPTY_INDICATOR

\* indexes of the panels the for loop does not skip: not the dragged one, pointer inside
Hits(ws, id, clientX, clientY) ==
    { i \in 1..Len(ws) : ws[i].id # id /\ Inside(ws[i], clientX, clientY) }

\* mutant of Resolve: the loop goes on to the next panel under the pointer when
\* the one before matches no edge
Resolve_ScansOn(ws, id, clientX, clientY) ==
    LET hits == { i \in Hits(ws, id, clientX, clientY) :
                    PanelIndicator(ws[i], clientX, clientY).show }
        first == CHOOSE i \in hits : \A j \in hits : i <= j
        indicator == IF hits = {} THEN EMPTY_INDICATOR
                     ELSE PanelIndicator(ws[first], clientX, clientY)
    IN IF indicator.show THEN indicator ELSE ScreenIndicator(clientX, clientY)

\* mutant of Resolve: the screen edges are tested first, the panels only after them
Resolve_ScreenFirst(ws, id, clientX, clientY) ==
    LET hits == Hits(ws, id, clientX, clientY)
        first == CHOOSE i \in hits : \A j \in hits : i <= j
        indicator == ScreenIndicator(clientX, clientY)
    IN IF indicator.show \/ hits = {} THEN indicator
       ELSE PanelIndicator(ws[first], clientX, clientY)

\* for (const w of windows) { ...; break; }  then  if (!indicator.show) { ... }
Resolve(ws, id, clientX, clientY) ==
    LET hits == Hits(ws, id, clientX, clientY)
        first == CHOOSE i \in hits : \A j \in hits : i <= j
        indicator == IF hits = {} THEN EMPTY_INDICATOR
                     ELSE PanelIndicator(ws[first], clientX, clientY)
    IN IF indicator.show THEN indicator ELSE ScreenIndicator(clientX, clientY)

-----------------------------------------------------------------------------
(* handleDrop: the setWindows updater *)

\* updates[target] of the switch
TargetUpdate(t, side) ==
    LET halfW == Half(t.width)
        halfH == Half(t.height)
    IN CASE side = "left"   -> [t EXCEPT !.left = t.left + halfW, !.width = halfW]
         [] side = "right"  -> [t EXCEPT !.width = halfW]
         [] side = "top"    -> [t EXCEPT !.top = t.top + halfH, !.height = halfH]
         [] side = "bottom" -> [t EXCEPT !.height = halfH]

\* updates[draggedId] of the switch
DraggedUpdate(dragged, t, side) ==
    LET halfW == Half(t.width)
        halfH == Half(t.height)
        snapped == [dragged EXCEPT !.isSnapped = TRUE, !.parent = t.id]
    IN CASE side = "left"   -> [snapped EXCEPT !.top = t.top, !.left = t.left,
                                               !.width = halfW, !.height = t.height]
         [] side = "right"  -> [snapped EXCEPT !.top = t.top, !.left = t.left + halfW,
                                               !.width = halfW, !.height = t.height]
         [] side = "top"    -> [snapped EXCEPT !.top = t.top, !.left = t.left,
                                               !.width = t.width, !.height = halfH]
         [] side = "bottom" -> [snapped EXCEPT !.top = t.top + halfH, !.left = t.left,
                                               !.width = t.width, !.height = halfH]

\* mutant of ScreenSnap: the panel takes the whole viewport, not a half of it
ScreenSnap_WholeViewport(w, side) ==
    [w EXCEPT !.isSnapped = TRUE, !.parent = Null, !.top = 0, !.left = 0,
              !.width = Px(innerWidth), !.height = Px(innerHeight)]

\* snapMap[side], spread over the dragged panel with isSnapped: true, parent: null
ScreenSnap(w, side) ==
    LET fullW == Px(innerWidth)
        fullH == Px(innerHeight)
        s == [w EXCEPT !.isSnapped = TRUE, !.parent = Null]
    IN CASE side = "left"   -> [s EXCEPT !.top = 0, !.left = 0,
                                         !.width = Half(fullW), !.height = fullH]
         [] side = "right"  -> [s EXCEPT !.top = 0, !.left = Half(fullW),
                                         !.width = Half(fullW), !.height = fullH]
         [] side = "top"    -> [s EXCEPT !.top = 0, !.left = 0,
                                         !.width = fullW, !.height = Half(fullH)]
         [] side = "bottom" -> [s EXCEPT !.top = Half(fullH), !.left = 0,
                                         !.width = fullW, !.height = Half(fullH)]

\* curr.map((w) => updates[w.id] ?? w): updates[draggedId] is assigned last
SplitWindows(curr, draggedId, side, target) ==
    LET dragged == curr[FindIdx(curr, draggedId)]
        t == curr[FindIdx(curr, target)]
    IN [i \in 1..Len(curr) |->
          IF curr[i].id = draggedId THEN DraggedUpdate(dragged, t, side)
          ELSE IF curr[i].id = target THEN TargetUpdate(t, side)
          ELSE curr[i]]

DropWindows(curr, draggedId, side, target) ==
    IF ~HasId(curr, draggedId) \/ side = NoSide THEN curr
    ELSE IF target # Null
    THEN IF ~HasId(curr, target) THEN curr
         ELSE SplitWindows(curr, draggedId, side, target)
    ELSE [i \in 1..Len(curr) |->
            IF curr[i].id = draggedId THEN ScreenSnap(curr[i], side) ELSE curr[i]]

-----------------------------------------------------------------------------
(* The handlers, over the state of the component *)

app == <<windows, snapIndicator, draggedWindowId, dragStartPos>>

NewWindow(id, top, left) ==
    [id |-> id, top |-> top, left |-> left,
     width |-> Px(DefaultWidth), height |-> Px(DefaultHeight),
     isSnapped |-> FALSE, parent |-> Null]

\* mutant of CreateWindow: the new panel is put in front of the list
CreateWindow_InFront(id, top, left) ==
    /\ windows' = <<NewWindow(id, top, left)>> \o windows
    /\ UNCHANGED <<snapIndicator, draggedWindowId, dragStartPos>>

\* createWindow, with Date.now() = id and the two random draws giving top, left
CreateWindow(id, top, left) ==
    /\ windows' = Append(windows, NewWindow(id, top, left))
    /\ UNCHANGED <<snapIndicator, draggedWindowId, dragStartPos>>

\* closeWindow: unsnapWindow(id), then the filter
CloseWindow(id) ==
    /\ windows' = RemoveId(UnsnapWindow(windows, id), id)
    /\ UNCHANGED <<snapIndicator, draggedWindowId, dragStartPos>>

HandleDragStart(id, clientX, clientY) ==
    /\ draggedWindowId' = id
    /\ dragStartPos' = Pos(clientX, clientY)
    /\ windows' = UnsnapWindow(windows, id)
    /\ UNCHANGED snapIndicator

\* mutant of DragIgnored: an event with clientX = 0 is treated like any other
DragIgnored_ZeroAccepted(id, clientX) ==
    \/ draggedWindowId # id
    \/ dragStartPos = NullPos

\* the early return of handleDrag
DragIgnored(id, clientX) ==
    \/ draggedWindowId # id
    \/ dragStartPos = NullPos
    \/ clientX = 0

\* mutant of Translate: every panel of the list is moved
Translate_Every(curr, id, dx, dy) ==
    [i \in 1..Len(curr) |->
        [curr[i] EXCEPT !.left = curr[i].left + dx, !.top = curr[i].top + dy]]

\* curr.map(w => w.id === id ? { ...w, left: w.left + dx, top: w.top + dy } : w)
Translate(curr, id, dx, dy) ==
    [i \in 1..Len(curr) |->
        IF curr[i].id = id
        THEN [curr[i] EXCEPT !.left = curr[i].left + dx, !.top = curr[i].top + dy]
        ELSE curr[i]]

\* mutant of HandleDrag: the resolver starts from the decision of the previous event
HandleDrag_Sticky(id, clientX, clientY) ==
    IF DragIgnored(id, clientX)
    THEN UNCHANGED app
    ELSE
      LET dx == clientX - dragStartPos[1]
          dy == clientY - dragStartPos[2]
          indicator == Resolve(windows, id, clientX, clientY)
      IN
      /\ dragStartPos' = Pos(clientX, clientY)
      /\ windows' = Translate(windows, id, dx, dy)
      /\ snapIndicator' = IF indicator.show THEN indicator ELSE snapIndicator
      /\ UNCHANGED draggedWindowId

HandleDrag(id, clientX, clientY) ==
    IF DragIgnored(id, clientX)
    THEN UNCHANGED app
    ELSE
      LET dx == clientX - dragStartPos[1]
          dy == clientY - dragStartPos[2]
      IN
      /\ dragStartPos' = Pos(clientX, clientY)
      /\ windows' = Translate(windows, id, dx, dy)
      /\ snapIndicator' = Resolve(windows, id, clientX, clientY)
      /\ UNCHANGED draggedWindowId

\* the early return of handleDrop
DropIgnored == ~snapIndicator.show \/ draggedWindowId = Null

HandleDrop ==
    IF DropIgnored
    THEN UNCHANGED app
    ELSE
      /\ windows' = DropWindows(windows, draggedWindowId,
                                snapIndicator.side, snapIndicator.target)
      /\ draggedWindowId' = Null
      /\ dragStartPos' = NullPos
      /\ snapIndicator' = EMPTY_INDICATOR

-----------------------------------------------------------------------------
(* The events of the host environment *)

NoDrop ==
    [some |-> FALSE, windows |-> <<>>, snapIndicator |-> EMPTY_INDICATOR,
     draggedWindowId |-> Null, dragStartPos |-> NullPos]

NoGrab == [some |-> FALSE, id |-> Null, pointer |-> NullPos, windows |-> <<>>]

Init ==
    /\ windows = <<>>
    /\ snapIndicator = EMPTY_INDICATOR
    /\ draggedWindowId = Null
    /\ dragStartPos = NullPos
    /\ now = 0
    /\ hostDrag = FALSE
    /\ events = 0
    /\ lastEvent = "init"
    /\ beforeDrop = NoDrop
    /\ grab = NoGrab

\* the ids in the panel list
IdsOf(ws) == { ws[i].id : i \in 1..Len(ws) }

\* the ids an event may carry: those of the panels, and one that no panel has
EventIds == IdsOf(windows) \cup {now + 1}

\* Date.now() is positive and never runs backwards: the millisecond of the
\* last reading, or a later one
ClockReadings == { t \in {now, now + 1} : t > 0 }

Step(name) ==
    /\ events < MaxEvents
    /\ events' = events + 1
    /\ lastEvent' = name
    /\ beforeDrop' = IF name = "drop"
                     THEN [some |-> TRUE, windows |-> windows,
                           snapIndicator |-> snapIndicator,
                           draggedWindowId |-> draggedWindowId,
                           dragStartPos |-> dragStartPos]
                     ELSE NoDrop

\* a click on the add button
CreateEvent ==
    /\ Step("create")
    /\ \E t \in ClockReadings, p \in Placements :
          /\ CreateWindow(t, p[1], p[2])
          /\ now' = t
    /\ grab' = NoGrab
    /\ UNCHANGED hostDrag

\* a click on a close button
CloseEvent ==
    /\ Step("close")
    /\ \E id \in EventIds : CloseWindow(id)
    /\ grab' = NoGrab
    /\ UNCHANGED <<now, hostDrag>>

\* dragstart on a title bar: the host starts a drag gesture
DragStartEvent ==
    /\ Step("dragstart")
    /\ ~hostDrag
    /\ \E id \in EventIds, p \in StartPointers :
          /\ HandleDragStart(id, p[1], p[2])
          /\ grab' = [some |-> TRUE, id |-> id, pointer |-> p, windows |-> windows']
    /\ hostDrag' = TRUE
    /\ UNCHANGED now

\* how handleDrag treats a drag event: "drag" when it moves the panel, "dragZero"
\* when it returns early for clientX === 0 alone, "dragIgnored" when it returns
\* early for the id or the missing start position
DragLabel(id, clientX) ==
    IF ~DragIgnored(id, clientX) THEN "drag"
    ELSE IF draggedWindowId = id /\ dragStartPos # NullPos THEN "dragZero"
    ELSE "dragIgnored"

\* drag on a title bar, delivered while the gesture lasts
DragEvent ==
    /\ hostDrag
    /\ \E id \in EventIds, p \in Pointers :
          /\ Step(DragLabel(id, p[1]))
          /\ HandleDrag(id, p[1], p[2])
    /\ UNCHANGED <<now, hostDrag, grab>>

\* drop on a panel or on the app: the gesture, if any, ends
DropEvent ==
    /\ Step("drop")
    /\ HandleDrop
    /\ hostDrag' = FALSE
    /\ grab' = NoGrab
    /\ UNCHANGED now

\* the gesture ends without a drop (dragend): no handler is registered for it
DragCancelEvent ==
    /\ Step("cancel")
    /\ hostDrag
    /\ hostDrag' = FALSE
    /\ grab' = NoGrab
    /\ UNCHANGED <<app, now>>

Next ==
    \/ CreateEvent
    \/ CloseEvent
    \/ DragStartEvent
    \/ DragEvent
    \/ DropEvent
    \/ DragCancelEvent

Spec == Init /\ [][Next]_vars

-----------------------------------------------------------------------------
(* Sanity of the fixed-point representation: every size is even, so Half is  *)
(* exact wherever a handler can still apply it.                              *)
HalvingExact ==
    \A i \in 1..Len(windows) :
        windows[i].width % 2 = 0 /\ windows[i].height % 2 = 0

-----------------------------------------------------------------------------
(* Vocabulary of the properties *)

\* the first panel of the list with this id
Panel(ws, id) == ws[FindIdx(ws, id)]

Geometry(w) == [top |-> w.top, left |-> w.left, width |-> w.width, height |-> w.height]

RightOf(r) == r.left + r.width
BottomOf(r) == r.top + r.height

NoOverlap(a, b) ==
    \/ RightOf(a) <= b.left
    \/ RightOf(b) <= a.left
    \/ BottomOf(a) <= b.top
    \/ BottomOf(b) <= a.top

\* a and b stand side by side, share a whole vertical edge and fill the rectangle whole
SideBySide(a, b, whole) ==
    /\ a.width + b.width = whole.width
    /\ a.top = b.top /\ a.height = b.height
    /\ a.top = whole.top /\ a.height = whole.height
    /\ \/ a.left = whole.left /\ RightOf(a) = b.left
       \/ b.left = whole.left /\ RightOf(b) = a.left

\* a and b are stacked, share a whole horizontal edge and fill the rectangle whole
Stacked(a, b, whole) ==
    /\ a.height + b.height = whole.height
    /\ a.left = b.left /\ a.width = b.width
    /\ a.left = whole.left /\ a.width = whole.width
    /\ \/ a.top = whole.top /\ BottomOf(a) = b.top
       \/ b.top = whole.top /\ BottomOf(b) = a.top

PartitionOf(a, b, whole, side) ==
    /\ NoOverlap(a, b)
    /\ IF side \in {"left", "right"} THEN SideBySide(a, b, whole)
                                     ELSE Stacked(a, b, whole)

\* the drop handled last was not ignored
Committed(b) ==
    /\ b.some
    /\ b.snapIndicator.show
    /\ b.draggedWindowId # Null

\* the drop handled last committed a decision with a target panel: the dragged
\* panel and the target were both in the list
SplitCommitted(b) ==
    /\ Committed(b)
    /\ b.snapIndicator.target # Null
    /\ HasId(b.windows, b.draggedWindowId)
    /\ HasId(b.windows, b.snapIndicator.target)

\* the drop handled last committed a decision with no target, the dragged panel in the list
ScreenCommitted(b) ==
    /\ Committed(b)
    /\ b.snapIndicator.target = Null
    /\ HasId(b.windows, b.draggedWindowId)

DroppedId == beforeDrop.draggedWindowId
TargetId == beforeDrop.snapIndicator.target
DropSide == beforeDrop.snapIndicator.side

-----------------------------------------------------------------------------
(* C1. Partition on split: after every drop that commits a decision with a   *)
(* target panel, the dragged panel and the target are edge-adjacent, do not  *)
(* overlap, their widths (left/right) or heights (top/bottom) add up to the  *)
(* target's extent before the drop, and together they cover exactly the      *)
(* rectangle the target occupied before the drop.                            *)
C1_PartitionOnSplit ==
    SplitCommitted(beforeDrop) =>
        PartitionOf(Panel(windows, DroppedId), Panel(windows, TargetId),
                    Panel(beforeDrop.windows, TargetId), DropSide)

\* the same statement for the drops whose target is another panel than the dragged one
C1_PartitionOfDistinct ==
    (SplitCommitted(beforeDrop) /\ DroppedId # TargetId) =>
        PartitionOf(Panel(windows, DroppedId), Panel(windows, TargetId),
                    Panel(beforeDrop.windows, TargetId), DropSide)

C1_SplitOfDistinctReached ==
    /\ SplitCommitted(beforeDrop)
    /\ DroppedId # TargetId
    /\ DropSide = "left"

-----------------------------------------------------------------------------
(* C2. Reversibility: when a panel has been dropped against a target and is  *)
(* unsnapped by the very next event (handleDragStart or closeWindow on it),  *)
(* the target's top, left, width and height are what they were before the    *)
(* split.                                                                    *)
UnsnappedNext(id) ==
    \/ lastEvent' = "dragstart" /\ draggedWindowId' = id
    \/ lastEvent' = "close" /\ ~HasId(windows', id)

C2_Reversibility ==
    [][ ( /\ SplitCommitted(beforeDrop)
          /\ DroppedId # TargetId
          /\ UnsnappedNext(DroppedId) )
        => Geometry(Panel(windows', TargetId))
             = Geometry(Panel(beforeDrop.windows, TargetId)) ]_vars

-----------------------------------------------------------------------------
(* C3. Picking up a panel makes it floating: from handleDragStart(id) until  *)
(* the gesture ends, the panel id, if in the list, has isSnapped = FALSE and *)
(* parent = null, whether it was snapped against a panel or a screen half.   *)
C3_DraggedIsFloating ==
    (hostDrag /\ HasId(windows, draggedWindowId)) =>
        LET w == Panel(windows, draggedWindowId)
        IN ~w.isSnapped /\ w.parent = Null

\* a panel picked up from a screen half: still snapped while it is dragged
C3_ScreenSnappedPickedUp ==
    /\ hostDrag
    /\ lastEvent = "dragstart"
    /\ HasId(windows, draggedWindowId)
    /\ Panel(windows, draggedWindowId).isSnapped
    /\ Panel(windows, draggedWindowId).parent = Null

-----------------------------------------------------------------------------
(* C4. After every drop that commits a decision with a target panel, the     *)
(* dragged panel and the target both have isSnapped = TRUE and the dragged   *)
(* panel's parent is the target's id.                                        *)
C4_BothSnappedAfterSplit ==
    SplitCommitted(beforeDrop) =>
        /\ Panel(windows, DroppedId).isSnapped
        /\ Panel(windows, DroppedId).parent = TargetId
        /\ Panel(windows, TargetId).isSnapped

\* what the code does establish: the flags of the dragged panel
C4_DraggedSnappedAfterSplit ==
    SplitCommitted(beforeDrop) =>
        /\ Panel(windows, DroppedId).isSnapped
        /\ Panel(windows, DroppedId).parent = TargetId

-----------------------------------------------------------------------------
(* C5. Snapped-geometry invariant: in every reachable state, a snapped panel *)
(* whose parent is another panel still in the list forms a partition with    *)
(* it: the two rectangles are edge-adjacent along a whole edge, with no gap  *)
(* and no overlap, so that together they make up one rectangle.              *)
Union(a, b) ==
    LET l == IF a.left < b.left THEN a.left ELSE b.left
        t == IF a.top < b.top THEN a.top ELSE b.top
        r == IF RightOf(a) > RightOf(b) THEN RightOf(a) ELSE RightOf(b)
        m == IF BottomOf(a) > BottomOf(b) THEN BottomOf(a) ELSE BottomOf(b)
    IN [top |-> t, left |-> l, width |-> r - l, height |-> m - t]

FormPartition(a, b) ==
    \/ PartitionOf(a, b, Union(a, b), "left")
    \/ PartitionOf(a, b, Union(a, b), "top")

C5_SnappedGeometry ==
    \A i \in 1..Len(windows) :
        LET w == windows[i] IN
        (w.isSnapped /\ w.parent # Null /\ w.parent # w.id /\ HasId(windows, w.parent)) =>
            FormPartition(w, Panel(windows, w.parent))

-----------------------------------------------------------------------------
(* C6. A drop with no active decision, or with no panel being dragged,       *)
(* leaves the panel list unchanged and clears the drag state: afterwards     *)
(* draggedWindowId and dragStartPos are both null.                           *)
IgnoredDrop(b) == b.some /\ ~Committed(b)

C6_IgnoredDropClears ==
    IgnoredDrop(beforeDrop) =>
        /\ windows = beforeDrop.windows
        /\ draggedWindowId = Null
        /\ dragStartPos = NullPos

\* what the code does on that path: nothing at all
C6_IgnoredDropKeepsList ==
    IgnoredDrop(beforeDrop) => windows = beforeDrop.windows

-----------------------------------------------------------------------------
(* C7. The snap decision is inactive whenever no drag gesture is in          *)
(* progress: every drop and every gesture that ends without a drop clears    *)
(* it, so a gesture never begins with a decision left by an earlier one.     *)
C7_NoDecisionOutsideDrag ==
    /\ ~hostDrag => ~snapIndicator.show
    /\ lastEvent = "dragstart" => ~snapIndicator.show

-----------------------------------------------------------------------------
(* Vocabulary of the resolver's properties, stated from the distances *)

NearPanelEdges(w, x, y) ==
    { s \in Sides :
        \/ s = "left"   /\ x - w.left < Px(SNAP_THRESHOLD)
        \/ s = "right"  /\ RightOf(w) - x < Px(SNAP_THRESHOLD)
        \/ s = "top"    /\ y - w.top < Px(SNAP_THRESHOLD)
        \/ s = "bottom" /\ BottomOf(w) - y < Px(SNAP_THRESHOLD) }

NearScreenEdges(x, y) ==
    { s \in Sides :
        \/ s = "left"   /\ x < Px(SNAP_THRESHOLD)
        \/ s = "right"  /\ Px(innerWidth) - x < Px(SNAP_THRESHOLD)
        \/ s = "top"    /\ y < Px(SNAP_THRESHOLD)
        \/ s = "bottom" /\ Px(innerHeight) - y < Px(SNAP_THRESHOLD) }

\* the documented order: left, right, top, bottom
Rank(s) == CASE s = "left" -> 1 [] s = "right" -> 2 [] s = "top" -> 3 [] s = "bottom" -> 4

FirstSide(S) == CHOOSE s \in S : \A t \in S : Rank(s) <= Rank(t)

\* the panels other than id that contain the pointer, and the first of them
Others(ws, id, x, y) ==
    { i \in 1..Len(ws) : ws[i].id # id /\ Inside(ws[i], x, y) }

FirstOther(ws, id, x, y) ==
    ws[CHOOSE i \in Others(ws, id, x, y) : \A j \in Others(ws, id, x, y) : i <= j]

\* this step is a drag event for the panel being dragged, with pointer p
DeliveredDrag(p) ==
    /\ lastEvent' \in {"drag", "dragZero", "dragIgnored"}
    /\ draggedWindowId # Null
    /\ HandleDrag(draggedWindowId, p[1], p[2])

\* the event handled last is a drag event that handleDrag did not ignore: the
\* pointer it carried is the one recorded, and the panels other than the dragged
\* one are those the resolver scanned
AfterAcceptedDrag == lastEvent = "drag"

PointerX == dragStartPos[1]
PointerY == dragStartPos[2]
OthersUnderPointer == Others(windows, draggedWindowId, PointerX, PointerY)
FirstUnderPointer == FirstOther(windows, draggedWindowId, PointerX, PointerY)

\* the screen half of a side, from the viewport
HalfRect(side) ==
    CASE side = "left"   -> [top |-> 0, left |-> 0,
                             width |-> Px(innerWidth) \div 2, height |-> Px(innerHeight)]
      [] side = "right"  -> [top |-> 0, left |-> Px(innerWidth) \div 2,
                             width |-> Px(innerWidth) \div 2, height |-> Px(innerHeight)]
      [] side = "top"    -> [top |-> 0, left |-> 0,
                             width |-> Px(innerWidth), height |-> Px(innerHeight) \div 2]
      [] side = "bottom" -> [top |-> Px(innerHeight) \div 2, left |-> 0,
                             width |-> Px(innerWidth), height |-> Px(innerHeight) \div 2]

\* the decision of a drag step whose pointer is near a screen edge, no other panel under it
ScreenDecisionAfter(p) ==
    (NearScreenEdges(p[1], p[2]) # {} /\ Others(windows, draggedWindowId, p[1], p[2]) = {})
    => /\ snapIndicator'.show
       /\ snapIndicator'.target = Null
       /\ snapIndicator'.side \in NearScreenEdges(p[1], p[2])

\* a drop step that commits a decision with no target, the dragged panel in the list
ScreenDropStep ==
    (/\ lastEvent' = "drop"
     /\ snapIndicator.show
     /\ snapIndicator.target = Null
     /\ draggedWindowId # Null
     /\ HasId(windows, draggedWindowId))
    => /\ Len(windows') = Len(windows)
       /\ \A i \in 1..Len(windows) :
            IF windows[i].id = draggedWindowId
            THEN /\ Geometry(windows'[i]) = HalfRect(snapIndicator.side)
                 /\ windows'[i].isSnapped
                 /\ windows'[i].parent = Null
                 /\ windows'[i].id = windows[i].id
            ELSE windows'[i] = windows[i]

\* the same two statements, of the state an event leaves
ScreenDecisionTaken ==
    (/\ AfterAcceptedDrag
     /\ NearScreenEdges(PointerX, PointerY) # {}
     /\ OthersUnderPointer = {})
    => /\ snapIndicator.show
       /\ snapIndicator.target = Null
       /\ snapIndicator.side \in NearScreenEdges(PointerX, PointerY)

ScreenDropDone ==
    ScreenCommitted(beforeDrop) =>
       /\ Len(windows) = Len(beforeDrop.windows)
       /\ \A i \in 1..Len(windows) :
            IF beforeDrop.windows[i].id = DroppedId
            THEN /\ Geometry(windows[i]) = HalfRect(DropSide)
                 /\ windows[i].isSnapped
                 /\ windows[i].parent = Null
                 /\ windows[i].id = DroppedId
            ELSE windows[i] = beforeDrop.windows[i]

-----------------------------------------------------------------------------
(* C8. Screen-half snap: when the pointer of the last drag event is within   *)
(* SNAP_THRESHOLD of a screen edge and no other panel is under it, the       *)
(* decision has that side and no target; the drop then gives the dragged     *)
(* panel the corresponding half of the viewport, isSnapped = TRUE and        *)
(* parent = null, and leaves every other panel unchanged.                    *)
C8_ScreenHalfSnap ==
    [][ /\ \A p \in Pointers : DeliveredDrag(p) => ScreenDecisionAfter(p)
        /\ ScreenDropStep ]_vars

(* C8 as amended: the same, for the drag events that handleDrag does not     *)
(* ignore (clientX # 0).                                                     *)
C8_ScreenHalfSnapOfAccepted == ScreenDecisionTaken /\ ScreenDropDone

\* the example of the specification: pointer (5, 400), viewport 1200 x 800, left half
C8_LeftHalfReached ==
    /\ ScreenCommitted(beforeDrop)
    /\ beforeDrop.dragStartPos = Pos(Px(5), Px(400))
    /\ DropSide = "left"
    /\ Len(windows) = 2
    /\ windows[1].id # windows[2].id
    /\ Geometry(Panel(windows, DroppedId))
         = [top |-> 0, left |-> 0, width |-> Px(600), height |-> Px(800)]
    /\ Panel(windows, DroppedId).isSnapped
    /\ Panel(windows, DroppedId).parent = Null

-----------------------------------------------------------------------------
(* C9. Edge precedence: when the pointer is inside a panel other than the    *)
(* dragged one and within SNAP_THRESHOLD of one or more of its edges, the    *)
(* decision's side is the first of them in the order left, right, top,       *)
(* bottom; the same order decides among the four screen edges.               *)
C9_EdgePrecedence ==
    AfterAcceptedDrag =>
        /\ (OthersUnderPointer # {}
              /\ NearPanelEdges(FirstUnderPointer, PointerX, PointerY) # {}) =>
              /\ snapIndicator.show
              /\ snapIndicator.target = FirstUnderPointer.id
              /\ snapIndicator.side
                   = FirstSide(NearPanelEdges(FirstUnderPointer, PointerX, PointerY))
        /\ (OthersUnderPointer = {} /\ NearScreenEdges(PointerX, PointerY) # {}) =>
              /\ snapIndicator.show
              /\ snapIndicator.side = FirstSide(NearScreenEdges(PointerX, PointerY))

\* the example of the specification: panel {0, 0, 300, 200}, pointer (10, 10), left wins
C9_LeftBeforeTopReached ==
    /\ AfterAcceptedDrag
    /\ HasId(windows, draggedWindowId)
    /\ dragStartPos = Pos(Px(10), Px(10))
    /\ snapIndicator.show
    /\ snapIndicator.side = "left"
    /\ snapIndicator.target # Null
    /\ snapIndicator.target # draggedWindowId
    /\ HasId(windows, snapIndicator.target)
    /\ Geometry(Panel(windows, snapIndicator.target))
         = [top |-> 0, left |-> 0, width |-> Px(300), height |-> Px(200)]
    /\ {"left", "top"} \subseteq
         NearPanelEdges(Panel(windows, snapIndicator.target), Px(10), Px(10))

-----------------------------------------------------------------------------
(* C10. A screen-edge decision (active, no target) is produced only when no  *)
(* panel other than the dragged one contains the pointer; whenever another   *)
(* panel contains the pointer, the decision targets such a panel or is       *)
(* inactive.                                                                 *)
C10_ScreenOnlyOverNoPanel ==
    AfterAcceptedDrag =>
        /\ (snapIndicator.show /\ snapIndicator.target = Null) => OthersUnderPointer = {}
        /\ OthersUnderPointer # {} =>
              \/ ~snapIndicator.show
              \/ \E i \in OthersUnderPointer : snapIndicator.target = windows[i].id

(* C10 as amended: a screen-edge decision is produced only when no other     *)
(* panel contains the pointer or the first such panel of the list has no     *)
(* edge within SNAP_THRESHOLD of it; when that first panel has such an edge, *)
(* the decision targets it.                                                  *)
C10_ScreenOnlyWithoutPanelEdge ==
    AfterAcceptedDrag =>
        /\ (snapIndicator.show /\ snapIndicator.target = Null) =>
              \/ OthersUnderPointer = {}
              \/ NearPanelEdges(FirstUnderPointer, PointerX, PointerY) = {}
        /\ (OthersUnderPointer # {}
              /\ NearPanelEdges(FirstUnderPointer, PointerX, PointerY) # {}) =>
              /\ snapIndicator.show
              /\ snapIndicator.target = FirstUnderPointer.id

\* a screen-edge decision taken with the pointer inside another panel, far from its edges
C10_ScreenDecisionOverPanelReached ==
    /\ AfterAcceptedDrag
    /\ HasId(windows, draggedWindowId)
    /\ snapIndicator.show
    /\ snapIndicator.target = Null
    /\ OthersUnderPointer # {}
    /\ NearPanelEdges(FirstUnderPointer, PointerX, PointerY) = {}

-----------------------------------------------------------------------------
(* C11. The snap resolver is deterministic and stateless: the decision left  *)
(* by a drag event is the one a fresh resolution yields from the recorded    *)
(* pointer, the dragged id, the panel list and the viewport alone, whatever  *)
(* decisions and gestures came before; so two resolutions of the same inputs *)
(* agree on the active flag, the side, the target and the preview rectangle. *)
C11_ResolverStateless ==
    AfterAcceptedDrag =>
        snapIndicator = Resolve(windows, draggedWindowId, PointerX, PointerY)

\* a resolution that finds nothing, in a list of several panels: an inactive decision
C11_InactiveDecisionReached ==
    /\ AfterAcceptedDrag
    /\ Len(windows) >= 2
    /\ HasId(windows, draggedWindowId)
    /\ OthersUnderPointer # {}
    /\ snapIndicator = EMPTY_INDICATOR

-----------------------------------------------------------------------------
(* C12. Unknown-id no-op: closeWindow, unsnapWindow, handleDragStart and     *)
(* handleDrag invoked with an id that no panel of the list has leave the     *)
(* panel list unchanged: the same panels, field values and order.            *)
UnknownIds == EventIds \ IdsOf(windows)

C12_UnknownIdNoOp ==
    [][ \A id \in UnknownIds :
          /\ UnsnapWindow(windows, id) = windows
          /\ (lastEvent' = "close" /\ CloseWindow(id)) => windows' = windows
          /\ (lastEvent' = "dragstart" /\ draggedWindowId' = id) => windows' = windows
          \* a drag event that is not ignored carries the recorded dragged id
          /\ (lastEvent' = "drag" /\ draggedWindowId = id) => windows' = windows
          /\ lastEvent' \in {"dragZero", "dragIgnored"} => windows' = windows
      ]_vars

\* a drag event accepted for an id that no panel has, begun by a handleDragStart for it
C12_UnknownIdDraggedReached ==
    /\ lastEvent = "drag"
    /\ Len(windows) >= 2
    /\ ~HasId(windows, draggedWindowId)

-----------------------------------------------------------------------------
(* C13. Dangling parent: unsnapWindow of a snapped panel whose parent names  *)
(* a panel that is no longer in the list sets only the isSnapped and parent  *)
(* of that panel, to FALSE and null; its geometry and every other panel are  *)
(* unchanged. Panels are told apart by their id, as the handlers do.         *)
Dangling(ws, id) ==
    /\ HasId(ws, id)
    /\ LET w == Panel(ws, id)
       IN w.isSnapped /\ w.parent # Null /\ ~HasId(ws, w.parent)

FlagsCleared(ws, id) ==
    [i \in 1..Len(ws) |->
        IF ws[i].id = id
        THEN [id |-> ws[i].id, top |-> ws[i].top, left |-> ws[i].left,
              width |-> ws[i].width, height |-> ws[i].height,
              isSnapped |-> FALSE, parent |-> Null]
        ELSE ws[i]]

C13_DanglingParent ==
    [][ \A i \in 1..Len(windows) :
          (windows[i].isSnapped /\ Dangling(windows, windows[i].id)) =>
            /\ UnsnapWindow(windows, windows[i].id) = FlagsCleared(windows, windows[i].id)
            /\ (lastEvent' = "dragstart" /\ draggedWindowId' = windows[i].id)
                  => windows' = FlagsCleared(windows, windows[i].id)
      ]_vars

\* a panel picked up after its target was closed: it has the half of the target
\* the split gave it, its flags are cleared and nothing else is in the list
C13_DanglingUnsnappedReached ==
    /\ lastEvent = "dragstart"
    /\ Len(windows) = 1
    /\ windows[1].id = draggedWindowId
    /\ windows[1].width = Half(Px(DefaultWidth))
    /\ windows[1].height = Px(DefaultHeight)
    /\ ~windows[1].isSnapped
    /\ windows[1].parent = Null

-----------------------------------------------------------------------------
(* C14. Panel ids are unique: in every state reachable by createWindow and   *)
(* closeWindow, several createWindow calls at one clock reading included, no *)
(* two panels of the list have the same id; and the id of a panel never      *)
(* changes while it is in the list.                                          *)
IdSeq(ws) == [i \in 1..Len(ws) |-> ws[i].id]

UniqueIds(ws) == \A i, j \in 1..Len(ws) : i # j => ws[i].id # ws[j].id

C14_UniqueIds == UniqueIds(windows)

\* the part of C14 the code keeps: no handler rewrites an id
C14_IdsStable ==
    [][ /\ lastEvent' = "create" => SubSeq(IdSeq(windows'), 1, Len(windows)) = IdSeq(windows)
        /\ lastEvent' \notin {"create", "close"} => IdSeq(windows') = IdSeq(windows)
      ]_vars

-----------------------------------------------------------------------------
(* C15. createWindow appends exactly one panel at the end of the list, with  *)
(* isSnapped = FALSE, parent = null and the default size, and leaves every   *)
(* panel already in the list, and their order, unchanged.                    *)
C15_CreateAppends ==
    [][ lastEvent' = "create" =>
          /\ Len(windows') = Len(windows) + 1
          /\ SubSeq(windows', 1, Len(windows)) = windows
          /\ ~windows'[Len(windows')].isSnapped
          /\ windows'[Len(windows')].parent = Null
          /\ windows'[Len(windows')].width = Px(DefaultWidth)
          /\ windows'[Len(windows')].height = Px(DefaultHeight)
      ]_vars

\* a panel created after another was snapped and moved: the older panel is as it was
C15_CreatedAfterSnapReached ==
    /\ lastEvent = "create"
    /\ Len(windows) >= 2
    /\ windows[1].isSnapped
    /\ ~windows[Len(windows)].isSnapped
    /\ windows[Len(windows)].width = Px(DefaultWidth)

-----------------------------------------------------------------------------
(* C16. A panel created by createWindow lies within the viewport: for every  *)
(* random draw, 0 <= left, left + width <= innerWidth, 0 <= top and          *)
(* top + height <= innerHeight.                                              *)
WithinViewport(w) ==
    /\ 0 <= w.left /\ w.left + w.width <= Px(innerWidth)
    /\ 0 <= w.top  /\ w.top + w.height <= Px(innerHeight)

C16_CreatedWithinViewport ==
    lastEvent = "create" => WithinViewport(windows[Len(windows)])

\* what the two draws do guarantee: the origin of the panel is inside the
\* viewport and the panel does not reach below it
C16_CreatedOriginWithinViewport ==
    lastEvent = "create" =>
        LET w == windows[Len(windows)] IN
        /\ 0 <= w.left /\ w.left < Px(innerWidth)
        /\ 0 <= w.top /\ w.top + w.height <= Px(innerHeight)

-----------------------------------------------------------------------------
(* C17. A drag event with clientX = 0 is ignored: the panel list, the        *)
(* recorded pointer position and the dragged id are unchanged by it, so the  *)
(* next drag event that is not ignored takes its delta from the last pointer *)
(* position that was recorded.                                               *)
ZeroPointers == { q \in Pointers : q[1] = 0 }

C17_ZeroCoordinateIgnored ==
    [][ \A id \in EventIds, q \in ZeroPointers :
          (lastEvent' \in {"drag", "dragZero", "dragIgnored"} /\ HandleDrag(id, q[1], q[2]))
            => UNCHANGED <<windows, dragStartPos, draggedWindowId>>
      ]_vars

\* a drag event of the panel being dragged, ignored for its zero coordinate alone
C17_ZeroCoordinateReached ==
    /\ lastEvent = "dragZero"
    /\ hostDrag
    /\ HasId(windows, draggedWindowId)
    /\ dragStartPos \in StartPointers \cup Pointers
    /\ dragStartPos[1] # 0

-----------------------------------------------------------------------------
(* C18. Relative translation: during one gesture, after any sequence of drag *)
(* events for the dragged panel, ignored events among them, the panel's left *)
(* and top are those it had at handleDragStart plus the pointer recorded     *)
(* last minus the pointer of handleDragStart; its width and height are       *)
(* unchanged and no panel with another id has been modified. A drag event    *)
(* for an id other than the recorded one changes nothing.                    *)
MovedBy(ws, id, dx, dy) ==
    [i \in 1..Len(ws) |->
        IF ws[i].id = id
        THEN [id |-> ws[i].id, top |-> ws[i].top + dy, left |-> ws[i].left + dx,
              width |-> ws[i].width, height |-> ws[i].height,
              isSnapped |-> ws[i].isSnapped, parent |-> ws[i].parent]
        ELSE ws[i]]

C18_RelativeTranslation ==
    grab.some =>
        /\ draggedWindowId = grab.id
        /\ dragStartPos # NullPos
        /\ windows = MovedBy(grab.windows, grab.id,
                             dragStartPos[1] - grab.pointer[1],
                             dragStartPos[2] - grab.pointer[2])

\* a panel moved from (100, 10) to (150, 100) and then sent an event with
\* clientX = 0: it is where the last recorded pointer puts it
C18_MovedThenZeroReached ==
    /\ grab.some
    /\ lastEvent = "dragZero"
    /\ Len(windows) = 2
    /\ windows[1].id # windows[2].id
    /\ HasId(windows, grab.id)
    /\ dragStartPos = Pos(Px(150), Px(100))
    /\ Panel(windows, grab.id).left = Panel(grab.windows, grab.id).left + Px(50)
    /\ Panel(windows, grab.id).top = Panel(grab.windows, grab.id).top + Px(90)

-----------------------------------------------------------------------------
(* C19. Target selection: when a decision has a target, the target is the    *)
(* first panel in the order of the list, the dragged panel left out, whose   *)
(* rectangle strictly contains the pointer; a panel later in the list that   *)
(* also contains the pointer is never selected, even when the first one      *)
(* matches no edge.                                                          *)
C19_FirstContainingPanel ==
    AfterAcceptedDrag =>
        /\ (snapIndicator.show /\ snapIndicator.target # Null) =>
              /\ OthersUnderPointer # {}
              /\ snapIndicator.target = FirstUnderPointer.id
        /\ (OthersUnderPointer # {}
              /\ NearPanelEdges(FirstUnderPointer, PointerX, PointerY) = {}) =>
              snapIndicator.target = Null

\* two panels under the pointer, the first far from its edges, the second near
\* one of its own: the decision has no target
C19_LaterPanelPassedOverReached ==
    /\ AfterAcceptedDrag
    /\ OthersUnderPointer # {}
    /\ NearPanelEdges(FirstUnderPointer, PointerX, PointerY) = {}
    /\ \E i \in OthersUnderPointer :
          /\ windows[i].id # FirstUnderPointer.id
          /\ NearPanelEdges(windows[i], PointerX, PointerY) # {}
    /\ snapIndicator.target = Null

-----------------------------------------------------------------------------
(* C20. closeWindow(id) on a panel snapped against a target that is still in *)
(* the list first unsnaps it and then removes it: afterwards id is absent    *)
(* from the list, the target has isSnapped = FALSE and parent = null and has *)
(* absorbed the extent of the closed panel (its rectangle is the one the two *)
(* panels made up), and the remaining panels keep their relative order.      *)
SnappedAgainstListed(ws, w) ==
    /\ w.isSnapped
    /\ w.parent # Null
    /\ HasId(ws, w.parent)

C20_CloseSnapped ==
    [][ lastEvent' = "close" =>
          \A i \in 1..Len(windows) :
            (SnappedAgainstListed(windows, windows[i]) /\ CloseWindow(windows[i].id)) =>
              LET w == windows[i]
                  t == Panel(windows, w.parent)
              IN /\ ~HasId(windows', w.id)
                 /\ HasId(windows', t.id)
                 /\ ~Panel(windows', t.id).isSnapped
                 /\ Panel(windows', t.id).parent = Null
                 /\ Geometry(Panel(windows', t.id)) = Union(Geometry(t), Geometry(w))
                 /\ IdSeq(windows') = IdSeq(RemoveId(windows, w.id))
      ]_vars

\* what closeWindow does establish when the target is another panel: the panel
\* is removed, the flags of the target are cleared, its width and its height
\* have both grown by those of the closed panel, its origin is where it was
C20_CloseUnsnapsThenRemoves ==
    [][ lastEvent' = "close" =>
          \A i \in 1..Len(windows) :
            (/\ SnappedAgainstListed(windows, windows[i])
             /\ windows[i].parent # windows[i].id
             /\ CloseWindow(windows[i].id)) =>
              LET w == windows[i]
                  t == Panel(windows, w.parent)
              IN /\ ~HasId(windows', w.id)
                 /\ HasId(windows', t.id)
                 /\ ~Panel(windows', t.id).isSnapped
                 /\ Panel(windows', t.id).parent = Null
                 /\ Panel(windows', t.id).width = t.width + w.width
                 /\ Panel(windows', t.id).height = t.height + w.height
                 /\ Panel(windows', t.id).left = t.left
                 /\ Panel(windows', t.id).top = t.top
                 /\ IdSeq(windows') = IdSeq(RemoveId(windows, w.id))
      ]_vars

-----------------------------------------------------------------------------
(* C21. Frame of a split drop: a drop that commits a decision with a target  *)
(* leaves the parent of the target unchanged and leaves every panel other    *)
(* than the dragged panel and the target completely unchanged; a drop whose  *)
(* target is no longer in the list leaves the whole panel list unchanged and *)
(* still clears the drag state and the preview.                              *)
OthersKept(before, after, ids) ==
    /\ Len(after) = Len(before)
    /\ \A i \in 1..Len(before) : before[i].id \notin ids => after[i] = before[i]

\* the drop handled last committed a decision whose target had left the list
TargetGone(b) ==
    /\ Committed(b)
    /\ b.snapIndicator.target # Null
    /\ ~HasId(b.windows, b.snapIndicator.target)

DragStateCleared ==
    /\ draggedWindowId = Null
    /\ dragStartPos = NullPos
    /\ snapIndicator = EMPTY_INDICATOR

C21_SplitDropFrame ==
    /\ SplitCommitted(beforeDrop) =>
          /\ Panel(windows, TargetId).parent = Panel(beforeDrop.windows, TargetId).parent
          /\ OthersKept(beforeDrop.windows, windows, {DroppedId, TargetId})
    /\ TargetGone(beforeDrop) =>
          /\ windows = beforeDrop.windows
          /\ DragStateCleared

\* the same statement for the drops whose target is another panel than the dragged one
C21_SplitDropFrameOfDistinct ==
    /\ (SplitCommitted(beforeDrop) /\ DroppedId # TargetId) =>
          /\ Panel(windows, TargetId).parent = Panel(beforeDrop.windows, TargetId).parent
          /\ OthersKept(beforeDrop.windows, windows, {DroppedId, TargetId})
          /\ DragStateCleared
    /\ TargetGone(beforeDrop) =>
          /\ windows = beforeDrop.windows
          /\ DragStateCleared

\* a drop after the target was closed during the gesture, the dragged panel in the list
C21_TargetGoneReached ==
    /\ TargetGone(beforeDrop)
    /\ HasId(beforeDrop.windows, DroppedId)
    /\ beforeDrop.dragStartPos # NullPos

-----------------------------------------------------------------------------
(* C22. Flag consistency: in every state reachable by createWindow,          *)
(* closeWindow, handleDragStart, handleDrag and handleDrop, every panel with *)
(* parent # null has isSnapped = TRUE: a split sets the two together and     *)
(* unsnapWindow clears them together.                                        *)
C22_ParentImpliesSnapped ==
    \A i \in 1..Len(windows) : windows[i].parent # Null => windows[i].isSnapped

\* a panel picked up after a split gave it a half of its target: both of its
\* flags are cleared
C22_UnsnappedAfterSplitReached ==
    /\ lastEvent = "dragstart"
    /\ HasId(windows, draggedWindowId)
    /\ Panel(windows, draggedWindowId).width < Px(DefaultWidth)
    /\ ~Panel(windows, draggedWindowId).isSnapped
    /\ Panel(windows, draggedWindowId).parent = Null
    /\ Len(windows) >= 2

-----------------------------------------------------------------------------
(* C23. No self-split: in every state reachable by handleDragStart,          *)
(* handleDrag, handleDrop, the end of a gesture without a drop and           *)
(* closeWindow, a committed split never has the dragged panel as its own     *)
(* target, so no panel ever has parent equal to its own id.                  *)
C23_NoSelfSplit ==
    /\ SplitCommitted(beforeDrop) => DroppedId # TargetId
    /\ \A i \in 1..Len(windows) : windows[i].parent # windows[i].id

====
